---- MODULE Spec2Model ----
(***************************************************************************)
(* Job subsystem of asdb-api: the versioned job table (models/job.rs), the *)
(* worker dispatch loop (jobs/mod.rs), the control row (models/control.rs) *)
(* and the cleanup reaper (cleanup/mod.rs).                                 *)
(*                                                                         *)
(* Every SQL statement is one atomic step.  JobEntry::commit and           *)
(* JobEntry::delete open a transaction with pool.begin() but run their     *)
(* statements on the pool, not on the transaction, so the statements of    *)
(* one call are separate steps that other processes can interleave with.   *)
(***************************************************************************)
EXTENDS Integers, FiniteSets, Sequences, TLC

\* ----------------------------------------------------------------- bounds
NumJobs == 2
NumWorkers == 2
NumReapers == 2
MaxTime == 2
MaxDays == 1

JobIds == 1..NumJobs
Workers == 1..NumWorkers
Reapers == 1..NumReapers
Times == 0..MaxTime
Days == 0..MaxDays

VARIABLES
    store,      \* table asdb_jobs.jobs: job id -> row
    counters,   \* table asdb_jobs.counters: name -> value
    controls,   \* table asdb_jobs.controls: worker name -> row
    dirs,       \* job ids whose directory <jobdir>/<id> exists
    now,        \* wall clock (Utc::now() / SQL now()), in days
    cpc, cjob,  \* HTTP create handler per job id: position, JobEntry
    wpc, wjob,  \* dispatcher per worker: position, JobEntry in flight
    executed,   \* history: workers that entered the handler for a job
    rpc, rjob, rdays, \* cleanup run: position, JobEntry, --interval
    req, resp,  \* the request in service and the reply to it
    antismash   \* the antiSMASH tables the region search reads

vars == <<store, counters, controls, dirs, now, cpc, cjob, wpc, wjob,
          executed, rpc, rjob, rdays, req, resp, antismash>>

\* the state the job subsystem does not touch
apivars == <<req, resp, antismash>>

\* the state of the job subsystem
jobvars == <<store, counters, controls, dirs, now, cpc, cjob, wpc, wjob,
             executed, rpc, rjob, rdays>>

\* ------------------------------------------------------------ job model
\* enum JobStatus and its strum/serde lowercase serialisation
JobStatus == {"Pending", "Running", "Done", "Error", "Delete"}

StatusToString(s) ==
    CASE s = "Pending" -> "pending"
      [] s = "Running" -> "running"
      [] s = "Done"    -> "done"
      [] s = "Error"   -> "error"
      [] s = "Delete"  -> "delete"

StatusFromStr(t) ==
    CASE t = "pending" -> "Pending"
      [] t = "running" -> "Running"
      [] t = "done"    -> "Done"
      [] t = "error"   -> "Error"
      [] t = "delete"  -> "Delete"

\* position of a stored status in the lifecycle Pending, Running,
\* Done | Error, Delete
StatusRank(t) ==
    CASE t = "pending" -> 0
      [] t = "running" -> 1
      [] t = "done"    -> 2
      [] t = "error"   -> 2
      [] t = "delete"  -> 3

\* enum JobType: the discriminator written to the jobtype column
JobType == {"ClusterBlast", "CompaRiPPson", "Ping", "StoredQuery"}

JobTypeToString(k) ==
    CASE k = "ClusterBlast" -> "clusterblast"
      [] k = "CompaRiPPson" -> "comparippson"
      [] k = "Ping"         -> "ping"
      [] k = "StoredQuery"  -> "storedquery"

JobTypeFromStr(t) ==
    CASE t = "clusterblast" -> "ClusterBlast"
      [] t = "comparippson" -> "CompaRiPPson"
      [] t = "ping"         -> "Ping"
      [] t = "storedquery"  -> "StoredQuery"

\* payloads: the input half and the output half of a job
Greetings == {"hi", "yo"}
BlastInputs == {"MKV"}
NoResult == "null"
EmptyHits == "{hits:[]}"
SomeHits == "{hits:[h]}"

\* Ping::new, StoredQuery::new (reply / filename: None) and
\* ClusterBlast::from_blast, CompaRiPPson::from_blast (hits: Vec::new()):
\* the result half of a fresh job
FreshResult(k) ==
    IF k \in {"Ping", "StoredQuery"} THEN NoResult ELSE EmptyHits

\* ping::run with a constant reply
PingReplyConstant(greeting) == "You said 'hi', I say 'PONG'!"

\* ping::run
PingReply(greeting) == "You said '" \o greeting \o "', I say 'PONG'!"

\* no request in service, no reply yet
NoReq == [op |-> "none"]

\* regions of the antiSMASH database
NumRegions == 2
MaxModules == 2
Regions == 1..NumRegions

\* antismash.regions (contig_edge) and antismash.modules (the number of
\* multi_gene modules of a region) without rows
NoRegions == [contig_edge |-> {}, multi_gene |-> [r \in Regions |-> 0]]

\* no job in flight
NoJob == [id |-> 0]

\* runner: "".to_owned(); workers are named 1..NumWorkers
NoRunner == 0

\* JobEntry::new
NewEntry(id, k, input, date) ==
    [id |-> id, jobtype |-> k, input |-> input, result |-> FreshResult(k),
     status |-> "Pending", runner |-> NoRunner, submitted_date |-> date,
     version |-> 0]

\* impl TryFrom<&JobEntry> for DbJob
DbJob(e) ==
    [jobtype |-> JobTypeToString(e.jobtype), status |-> StatusToString(e.status),
     runner |-> e.runner, submitted_date |-> e.submitted_date,
     data |-> e.input, results |-> e.result, version |-> e.version]

\* impl TryFrom<DbJob> for JobEntry
EntryFromDb(id, row) ==
    [id |-> id, jobtype |-> JobTypeFromStr(row.jobtype), input |-> row.data,
     result |-> row.results, status |-> StatusFromStr(row.status),
     runner |-> row.runner, submitted_date |-> row.submitted_date,
     version |-> row.version]

Exists(id) == id \in DOMAIN store

\* next_pending without its WHERE clause: the oldest row of any status
NextPendingAnyStatus ==
    {j \in DOMAIN store :
        \A k \in DOMAIN store :
            store[j].submitted_date <= store[k].submitted_date}

\* next_pending with the ordering reversed: the newest pending row
NextPendingNewest ==
    {j \in DOMAIN store :
        /\ store[j].status = "pending"
        /\ \A k \in DOMAIN store :
              store[k].status = "pending"
                  => store[j].submitted_date >= store[k].submitted_date}

\* next_pending with WHERE status IN ('pending', 'running')
NextPendingOrRunning ==
    {j \in DOMAIN store :
        /\ store[j].status \in {"pending", "running"}
        /\ \A k \in DOMAIN store :
              store[k].status \in {"pending", "running"}
                  => store[j].submitted_date <= store[k].submitted_date}

\* SELECT ... WHERE status = 'pending' ORDER BY submitted_date LIMIT 1
\* (rows with equal dates: the store may return any of them)
NextPending ==
    {j \in DOMAIN store :
        /\ store[j].status = "pending"
        /\ \A k \in DOMAIN store :
              store[k].status = "pending"
                  => store[j].submitted_date <= store[k].submitted_date}

\* WHERE submitted_date < now() - interval '1 day' * $1 OR status = 'delete'
Reapable(row, days, t) ==
    row.submitted_date < t - days \/ row.status = "delete"

\* next_to_clean without `OR status = 'delete'`
NextToCleanExpiredOnly(days) ==
    {j \in DOMAIN store :
        /\ store[j].submitted_date < now - days
        /\ \A k \in DOMAIN store :
              store[k].submitted_date < now - days
                  => store[j].submitted_date <= store[k].submitted_date}

\* SELECT ... ORDER BY submitted_date LIMIT 1 over the reapable rows
NextToClean(days) ==
    {j \in DOMAIN store :
        /\ Reapable(store[j], days, now)
        /\ \A k \in DOMAIN store :
              Reapable(store[k], days, now)
                  => store[j].submitted_date <= store[k].submitted_date}

\* INSERT INTO asdb_jobs.jobs ... VALUES (..., $8): the row commit inserts
InsertedRow(e) == DbJob(e)

\* the UPDATE with `version = $2`: the version is not advanced
UpdatedRowSameVersion(row, e) ==
    [row EXCEPT !.status = DbJob(e).status, !.runner = DbJob(e).runner,
                !.data = DbJob(e).data, !.results = DbJob(e).results]

\* the UPDATE without `status = $3`: the stamp is not written
UpdatedRowKeepsStatus(row, e) ==
    [row EXCEPT !.runner = DbJob(e).runner,
                !.data = DbJob(e).data, !.results = DbJob(e).results,
                !.version = DbJob(e).version + 1]

\* UPDATE ... SET status, runner, data, results, version = ($2 + 1)
UpdatedRow(row, e) ==
    [row EXCEPT !.status = DbJob(e).status, !.runner = DbJob(e).runner,
                !.data = DbJob(e).data, !.results = DbJob(e).results,
                !.version = DbJob(e).version + 1]

\* the UPDATE with `WHERE id = $1` only
UpdateMatchesAnyVersion(e) == Exists(e.id)

\* ... WHERE id = $1 AND version = $2
UpdateMatches(e) == Exists(e.id) /\ store[e.id].version = DbJob(e).version

\* format!("{}_jobs", self.jobtype)
KindCounter(e) == JobTypeToString(e.jobtype) \o "_jobs"

\* ---------------------------------------------------------------- Init
Init ==
    /\ store = <<>>
    /\ counters = <<>>
    /\ controls = <<>>
    /\ dirs = {}
    /\ now = 0
    /\ cpc = [j \in JobIds |-> "new"]
    /\ cjob = [j \in JobIds |-> NoJob]
    /\ wpc = [w \in Workers |-> "off"]
    /\ wjob = [w \in Workers |-> NoJob]
    /\ executed = [j \in JobIds |-> {}]
    /\ rpc = [r \in Reapers |-> "idle"]
    /\ rjob = [r \in Reapers |-> NoJob]
    /\ rdays = [r \in Reapers |-> 0]
    /\ req = NoReq
    /\ resp = NoReq
    /\ antismash = NoRegions

\* ------------------------------------------------------- environment
\* time passes
Tick ==
    /\ now < MaxTime
    /\ now' = now + 1
    /\ UNCHANGED apivars
    /\ UNCHANGED <<store, counters, controls, dirs, cpc, cjob, wpc, wjob,
                   executed, rpc, rjob, rdays>>

\* an operator schedules the shutdown of a worker in its Control row
SetStop(w) ==
    /\ w \in DOMAIN controls
    /\ ~controls[w].stop_scheduled
    /\ controls' = [controls EXCEPT ![w].stop_scheduled = TRUE]
    /\ UNCHANGED apivars
    /\ UNCHANGED <<store, counters, dirs, now, cpc, cjob, wpc, wjob,
                   executed, rpc, rjob, rdays>>

\* a job is marked for reaping from outside: a versioned update of its row
Tombstone(j) ==
    /\ Exists(j)
    /\ store[j].status # "delete"
    /\ store' = [store EXCEPT ![j].status = "delete",
                              ![j].version = store[j].version + 1]
    /\ UNCHANGED apivars
    /\ UNCHANGED <<counters, controls, dirs, now, cpc, cjob, wpc, wjob,
                   executed, rpc, rjob, rdays>>

\* ------------------------------------------------- api/job.rs: create_*
\* JobEntry::new, then commit's SELECT COUNT(*), which finds no row for
\* the fresh UUID
CreateKinds == {"Ping", "ClusterBlast"}

\* the request bodies: PingRequest { greeting }, BlastInput
Inputs(k) == IF k = "Ping" THEN Greetings ELSE BlastInputs

CreateNew(j, k) ==
    /\ cpc[j] = "new"
    /\ \A i \in JobIds : i < j => cpc[i] # "new"
    /\ \E g \in Inputs(k) :
          cjob' = [cjob EXCEPT ![j] = NewEntry(j, k, g, now)]
    /\ cpc' = [cpc EXCEPT ![j] = IF Exists(j) THEN "update" ELSE "insert"]
    /\ UNCHANGED apivars
    /\ UNCHANGED <<store, counters, controls, dirs, now, wpc, wjob,
                   executed, rpc, rjob, rdays>>

\* commit's INSERT, issued by the create handler
CreateInsert(j) ==
    /\ cpc[j] = "insert"
    /\ IF Exists(j)
       THEN /\ cpc' = [cpc EXCEPT ![j] = "failed"]
            /\ UNCHANGED store
       ELSE /\ store' = (j :> InsertedRow(cjob[j])) @@ store
            /\ cpc' = [cpc EXCEPT ![j] = "done"]
    /\ cjob' = [cjob EXCEPT ![j] = NoJob]
    /\ UNCHANGED apivars
    /\ UNCHANGED <<counters, controls, dirs, now, wpc, wjob, executed,
                   rpc, rjob, rdays>>

\* ------------------------------------------------ jobs/mod.rs: dispatch
VERSION == "unknown"

\* Control::new(..., "running", false, VERSION).commit(): upsert
Start(w) ==
    /\ wpc[w] = "off"
    /\ controls' = (w :> [status |-> "running", stop_scheduled |-> FALSE,
                          version |-> VERSION]) @@ controls
    /\ wpc' = [wpc EXCEPT ![w] = "select"]
    /\ UNCHANGED apivars
    /\ UNCHANGED <<store, counters, dirs, now, cpc, cjob, wjob, executed,
                   rpc, rjob, rdays>>

\* JobEntry::next_pending, then job.runner = name; job.status = Running
\* and commit's pool.begin(); with no pending job go to the control check
SelectPending(w) ==
    /\ wpc[w] = "select"
    /\ IF NextPending = {}
       THEN /\ wpc' = [wpc EXCEPT ![w] = "control"]
            /\ UNCHANGED wjob
       ELSE /\ \E j \in NextPending :
                  wjob' = [wjob EXCEPT ![w] =
                              [EntryFromDb(j, store[j]) EXCEPT
                                  !.runner = w, !.status = "Running"]]
            /\ wpc' = [wpc EXCEPT ![w] = "count"]
    /\ UNCHANGED apivars
    /\ UNCHANGED <<store, counters, controls, dirs, now, cpc, cjob,
                   executed, rpc, rjob, rdays>>

\* commit: SELECT COUNT(*) FROM asdb_jobs.jobs WHERE id = $1
CommitCount(w) ==
    /\ wpc[w] = "count"
    /\ wpc' = [wpc EXCEPT ![w] = IF Exists(wjob[w].id) THEN "update"
                                                       ELSE "insert"]
    /\ UNCHANGED apivars
    /\ UNCHANGED <<store, counters, controls, dirs, now, cpc, cjob, wjob,
                   executed, rpc, rjob, rdays>>

\* where the dispatcher continues after a successful commit: the handler
\* after the Running commit, the control check after the final one
AfterCommit(e) == IF e.status = "Running" THEN "handler" ELSE "control"

\* commit returned Ok: the entry stays in scope until the end of the
\* `if let` block
Committed(w, e) ==
    /\ wpc' = [wpc EXCEPT ![w] = AfterCommit(e)]
    /\ wjob' = [wjob EXCEPT ![w] = e]
    /\ executed' = IF e.status = "Running"
                   THEN [executed EXCEPT ![e.id] = @ \cup {w}]
                   ELSE executed

\* a failed commit that is skipped: the dispatcher goes on to the control
\* check and the next job
StoreErrorContinues(w) ==
    /\ wpc' = [wpc EXCEPT ![w] = "control"]
    /\ UNCHANGED <<store, wjob, executed>>

\* commit returned Err before self.version was assigned; `?` returns the
\* error from dispatch and main unwraps it
StoreError(w) ==
    /\ wpc' = [wpc EXCEPT ![w] = "store_error"]
    /\ UNCHANGED <<store, wjob, executed>>

\* commit: the INSERT branch (count == 0); the in-memory version stays
CommitInsert(w) ==
    /\ wpc[w] = "insert"
    /\ IF Exists(wjob[w].id)
       THEN StoreError(w)
       ELSE /\ store' = (wjob[w].id :> InsertedRow(wjob[w])) @@ store
            /\ Committed(w, wjob[w])
    /\ UNCHANGED apivars
    /\ UNCHANGED <<counters, controls, dirs, now, cpc, cjob, rpc, rjob,
                   rdays>>

\* commit: the conditional UPDATE ... RETURNING version; fetch_one fails
\* with RowNotFound when no row matches, else self.version = new_version
CommitUpdate(w) ==
    /\ wpc[w] = "update"
    /\ IF UpdateMatches(wjob[w])
       THEN /\ store' = [store EXCEPT ![wjob[w].id] = UpdatedRow(@, wjob[w])]
            /\ Committed(w, [wjob[w] EXCEPT
                               !.version = store'[wjob[w].id].version])
       ELSE StoreError(w)
    /\ UNCHANGED apivars
    /\ UNCHANGED <<counters, controls, dirs, now, cpc, cjob, rpc, rjob,
                   rdays>>

\* the handlers that can return an error: subprocess spawn, I/O, parsing
CanFail(k) == k # "Ping"

\* stored_query::run: format!("/{urlroot}/{job_id}/{filename}")
ArtifactUrl(input) == "/job_downloads/" \o input \o "/" \o input \o ".json"

\* the completed payload a handler returns
Completed(e) ==
    CASE e.jobtype = "Ping" -> PingReply(e.input)
      [] e.jobtype = "StoredQuery" -> ArtifactUrl(e.input)
      [] OTHER -> SomeHits

\* stored_query::run: fs::create_dir_all(config.jobdir.join(job_id)) with
\* job_id = query.input.job_id; a directory is known by the job id that
\* is its name, a name that is no job id is outside the modelled ones
ArtifactDirs(e) ==
    IF e.jobtype = "StoredQuery"
    THEN {k \in JobIds : ToString(k) = e.input}
    ELSE {}

\* run: the handler returned Ok; job.jobtype = completed, status = Done,
\* and commit's pool.begin()
HandlerOk(w) ==
    /\ wpc[w] = "handler"
    /\ wjob' = [wjob EXCEPT ![w].result = Completed(wjob[w]),
                            ![w].status = "Done"]
    /\ dirs' = dirs \cup ArtifactDirs(wjob[w])
    /\ wpc' = [wpc EXCEPT ![w] = "count"]
    /\ UNCHANGED apivars
    /\ UNCHANGED <<store, counters, controls, now, cpc, cjob,
                   executed, rpc, rjob, rdays>>

\* run: the handler returned Err, before or after it made its directory;
\* `?` returns the error from run and from dispatch
HandlerErr(w) ==
    /\ wpc[w] = "handler"
    /\ CanFail(wjob[w].jobtype)
    /\ \E made \in {{}, ArtifactDirs(wjob[w])} : dirs' = dirs \cup made
    /\ wpc' = [wpc EXCEPT ![w] = "handler_error"]
    /\ wjob' = [wjob EXCEPT ![w] = NoJob]
    /\ UNCHANGED apivars
    /\ UNCHANGED <<store, counters, controls, now, cpc, cjob,
                   executed, rpc, rjob, rdays>>

\* end of the `if let` block, control.fetch(); return Ok when
\* stop_scheduled, else sleep and loop
ControlFetch(w) ==
    /\ wpc[w] = "control"
    /\ wpc' = [wpc EXCEPT ![w] = IF controls[w].stop_scheduled
                                 THEN "stopped" ELSE "select"]
    /\ wjob' = [wjob EXCEPT ![w] = NoJob]
    /\ UNCHANGED apivars
    /\ UNCHANGED <<store, counters, controls, dirs, now, cpc, cjob,
                   executed, rpc, rjob, rdays>>

Worker(w) ==
    \/ Start(w)
    \/ SelectPending(w)
    \/ CommitCount(w)
    \/ CommitUpdate(w)
    \/ HandlerOk(w)
    \/ HandlerErr(w)
    \/ ControlFetch(w)

\* ------------------------------------------------ cleanup/mod.rs: run
\* main: Commands::Cleanup { interval } with interval >= 0
CleanupStart(r) ==
    /\ rpc[r] = "idle"
    /\ \E d \in Days : rdays' = [rdays EXCEPT ![r] = d]
    /\ rpc' = [rpc EXCEPT ![r] = "select"]
    /\ UNCHANGED apivars
    /\ UNCHANGED <<store, counters, controls, dirs, now, cpc, cjob, wpc,
                   wjob, executed, rjob>>

\* JobEntry::next_to_clean; None ends the loop
CleanupSelect(r) ==
    /\ rpc[r] = "select"
    /\ IF NextToClean(rdays[r]) = {}
       THEN /\ rpc' = [rpc EXCEPT ![r] = "vacuum"]
            /\ UNCHANGED rjob
       ELSE /\ \E j \in NextToClean(rdays[r]) :
                  rjob' = [rjob EXCEPT ![r] = EntryFromDb(j, store[j])]
            /\ rpc' = [rpc EXCEPT ![r] = "rmdir"]
    /\ UNCHANGED apivars
    /\ UNCHANGED <<store, counters, controls, dirs, now, cpc, cjob, wpc,
                   wjob, executed, rdays>>

\* if jobdir.exists() { remove_dir_all(jobdir)?; }, then delete's
\* pool.begin()
CleanupRemoveDir(r) ==
    /\ rpc[r] = "rmdir"
    /\ dirs' = dirs \ {rjob[r].id}
    /\ rpc' = [rpc EXCEPT ![r] = "delete"]
    /\ UNCHANGED apivars
    /\ UNCHANGED <<store, counters, controls, now, cpc, cjob, wpc, wjob,
                   executed, rjob, rdays>>

\* remove_dir_all fails after the row was deleted: delete before the removal
CleanupRemoveDirErrRowGone(r) ==
    /\ rpc[r] = "rmdir"
    /\ rjob[r].id \in dirs
    /\ rpc' = [rpc EXCEPT ![r] = "io_error"]
    /\ rjob' = [rjob EXCEPT ![r] = NoJob]
    /\ store' = [k \in DOMAIN store \ {rjob[r].id} |-> store[k]]
    /\ UNCHANGED apivars
    /\ UNCHANGED <<counters, controls, dirs, now, cpc, cjob, wpc,
                   wjob, executed, rdays>>

\* remove_dir_all fails: `?` returns the I/O error from run
CleanupRemoveDirErr(r) ==
    /\ rpc[r] = "rmdir"
    /\ rjob[r].id \in dirs
    /\ rpc' = [rpc EXCEPT ![r] = "io_error"]
    /\ rjob' = [rjob EXCEPT ![r] = NoJob]
    /\ UNCHANGED apivars
    /\ UNCHANGED <<store, counters, controls, dirs, now, cpc, cjob, wpc,
                   wjob, executed, rdays>>

\* delete: DELETE FROM asdb_jobs.jobs WHERE id = $1
DeleteRow(r) ==
    /\ rpc[r] = "delete"
    /\ store' = [k \in DOMAIN store \ {rjob[r].id} |-> store[k]]
    /\ rpc' = [rpc EXCEPT ![r] = "stat_total"]
    /\ UNCHANGED apivars
    /\ UNCHANGED <<counters, controls, dirs, now, cpc, cjob, wpc, wjob,
                   executed, rjob, rdays>>

\* UPDATE asdb_jobs.counters SET value = value + 1 WHERE name = 'total_jobs'
BumpTotal(c) ==
    IF "total_jobs" \in DOMAIN c
    THEN [c EXCEPT !["total_jobs"] = @ + 1]
    ELSE c

\* INSERT INTO asdb_jobs.counters(name, value) VALUES ($1, 1)
\* ON CONFLICT (name) DO UPDATE SET value = counters.value + 1
BumpKind(c, name) ==
    IF name \in DOMAIN c
    THEN [c EXCEPT ![name] = @ + 1]
    ELSE (name :> 1) @@ c

\* update_stats: first statement
StatTotal(r) ==
    /\ rpc[r] = "stat_total"
    /\ counters' = BumpTotal(counters)
    /\ rpc' = [rpc EXCEPT ![r] = "stat_kind"]
    /\ UNCHANGED apivars
    /\ UNCHANGED <<store, controls, dirs, now, cpc, cjob, wpc, wjob,
                   executed, rjob, rdays>>

\* update_stats: second statement, then tx.commit() and the next round
StatKind(r) ==
    /\ rpc[r] = "stat_kind"
    /\ counters' = BumpKind(counters, KindCounter(rjob[r]))
    /\ rpc' = [rpc EXCEPT ![r] = "select"]
    /\ rjob' = [rjob EXCEPT ![r] = NoJob]
    /\ UNCHANGED apivars
    /\ UNCHANGED <<store, controls, dirs, now, cpc, cjob, wpc, wjob,
                   executed, rdays>>

\* VACUUM asdb_jobs.jobs; VACUUM asdb_jobs.controls; Ok(())
Vacuum(r) ==
    /\ rpc[r] = "vacuum"
    /\ rpc' = [rpc EXCEPT ![r] = "done"]
    /\ UNCHANGED apivars
    /\ UNCHANGED <<store, counters, controls, dirs, now, cpc, cjob, wpc,
                   wjob, executed, rjob, rdays>>

Cleanup(r) ==
    \/ CleanupStart(r)
    \/ CleanupSelect(r)
    \/ CleanupRemoveDir(r)
    \/ CleanupRemoveDirErr(r)
    \/ DeleteRow(r)
    \/ StatTotal(r)
    \/ StatKind(r)
    \/ Vacuum(r)

\* ------------------------------------------------------ specifications
\* POST /api/jobs/clusterblast
create_clusterblast(j) == CreateNew(j, "ClusterBlast") \/ CreateInsert(j)

\* POST /api/jobs/<kind>
Create(j) == (\E k \in CreateKinds : CreateNew(j, k)) \/ CreateInsert(j)

\* the whole system: API, workers, operator, reaper
Next ==
    \/ Tick
    \/ \E j \in JobIds : Create(j) \/ Tombstone(j)
    \/ \E w \in Workers : Worker(w) \/ CommitInsert(w) \/ SetStop(w)
    \/ \E r \in Reapers : Cleanup(r)

Spec == Init /\ [][Next]_vars

\* creation of ClusterBlast jobs, concurrent dispatch loops and tombstoning
NextDispatch ==
    \/ \E j \in JobIds : create_clusterblast(j) \/ Tombstone(j)
    \/ \E w \in Workers : Worker(w)

SpecDispatch == Init /\ [][NextDispatch]_vars

\* job creation over time and the dispatch loop of a single worker
NextOrder ==
    \/ Tick
    \/ \E j \in JobIds : Create(j)
    \/ Worker(1)

SpecOrder == Init /\ [][NextOrder]_vars

\* job creation, dispatch loops and shutdown requests
NextShutdown ==
    \/ \E j \in JobIds : Create(j)
    \/ \E w \in Workers : Worker(w) \/ SetStop(w)

SpecShutdown == Init /\ [][NextShutdown]_vars

\* job creation and dispatch loops that are scheduled again and again: the
\* tokio runtime resumes a dispatcher after every await
NextLive ==
    \/ \E j \in JobIds : Create(j)
    \/ \E w \in Workers : Worker(w)

SpecLive ==
    Init /\ [][NextLive]_vars /\ \A w \in Workers : WF_vars(Worker(w))

\* a row as the dispatch of a job leaves it in the given status
RowAt(k, st, date) ==
    [jobtype |-> JobTypeToString(k), status |-> st,
     runner |-> IF st \in {"running", "done"} THEN 1 ELSE NoRunner,
     submitted_date |-> date, data |-> "hi",
     results |-> IF st = "done"
                 THEN Completed([jobtype |-> k, input |-> "hi"])
                 ELSE FreshResult(k),
     version |-> StatusRank(st)]

StoredKinds == {"Ping", "StoredQuery"}
StoredStatus == {"pending", "running", "done", "delete"}

\* the cleanup command started on a quiet system: any job table, a
\* directory for some of the StoredQuery jobs, counters seeded or not
InitCleanup ==
    /\ \E ids \in SUBSET JobIds :
          store \in [ids -> {RowAt(k, st, d) : k \in StoredKinds,
                                st \in StoredStatus, d \in Times}]
    /\ dirs \in SUBSET {j \in DOMAIN store : store[j].jobtype = "storedquery"}
    /\ counters \in {<<>>, [n \in {"total_jobs"} |-> 0]}
    /\ controls = <<>>
    /\ now = MaxTime
    /\ cpc = [j \in JobIds |-> "done"]
    /\ cjob = [j \in JobIds |-> NoJob]
    /\ wpc = [w \in Workers |-> "off"]
    /\ wjob = [w \in Workers |-> NoJob]
    /\ executed = [j \in JobIds |-> {}]
    /\ rpc = [r \in Reapers |-> "idle"]
    /\ rjob = [r \in Reapers |-> NoJob]
    /\ rdays = [r \in Reapers |-> 0]
    /\ req = NoReq
    /\ resp = NoReq
    /\ antismash = NoRegions

\* one run of the cleanup command
NextCleanup == Cleanup(1)

SpecCleanup == InitCleanup /\ [][NextCleanup]_vars

\* ------------------------------------------------------------- claims
\* C1: the statuses stored for a job id only move forwards, Pending, then
\* Running, then Done or Error, then Delete: no step of job creation, of a
\* dispatch loop or of tombstoning takes a stored status back to an earlier
\* one or swaps Done and Error.
C1_StatusMonotone ==
    [][\A j \in JobIds :
          (j \in DOMAIN store /\ j \in DOMAIN store')
              => \/ store'[j].status = store[j].status
                 \/ StatusRank(store[j].status) < StatusRank(store'[j].status)]_vars

\* a job ran to Done while another worker that had selected it as well
\* lost the Running commit, and a job that had been executed was tombstoned
C1_Witness ==
    \E j \in DOMAIN store, k \in DOMAIN store, w \in Workers :
        /\ store[j].status = "done"
        /\ wpc[w] = "store_error" /\ wjob[w].id = j
        /\ store[k].status = "delete" /\ executed[k] # {}

\* C2: a commit that updates an existing row raises the stored version by
\* exactly 1 and leaves the in-memory version equal to the stored one, and
\* no step lowers the stored version of a job id.
C2_VersionAdvances ==
    [][/\ \A j \in JobIds :
             (j \in DOMAIN store /\ j \in DOMAIN store')
                 => store'[j].version >= store[j].version
       /\ \A w \in Workers :
             (wpc[w] = "update" /\ wpc'[w] \in {"handler", "control"})
                 => /\ store'[wjob[w].id].version
                          = store[wjob[w].id].version + 1
                    /\ wjob'[w].version = store'[wjob[w].id].version]_vars

\* a worker has committed Running and Done and holds version 2
C2_Witness ==
    \E w \in Workers :
        /\ wpc[w] = "control" /\ wjob[w] # NoJob
        /\ wjob[w].version = 2 /\ store[wjob[w].id].version = 2

\* C3: the UPDATE of a commit whose in-memory version differs from the
\* version of the existing row fails with a store error and changes neither
\* the row nor the in-memory entry.
C3_StaleCommitFails ==
    [][\A w \in Workers :
          (/\ wpc[w] = "update" /\ wpc'[w] # "update"
           /\ Exists(wjob[w].id)
           /\ store[wjob[w].id].version # wjob[w].version)
              => /\ wpc'[w] = "store_error"
                 /\ store' = store
                 /\ wjob'[w] = wjob[w]]_vars

\* a worker's commit failed against a row that had moved on
C3_Witness ==
    \E w \in Workers :
        /\ wpc[w] = "store_error"
        /\ Exists(wjob[w].id)
        /\ store[wjob[w].id].version > wjob[w].version

\* C4: for every job at most one worker's Running commit succeeds, only
\* that worker is in the job's handler, and the runner column names it.
C4_SingleExecutor ==
    /\ \A j \in JobIds : Cardinality(executed[j]) <= 1
    /\ \A j \in DOMAIN store :
          executed[j] # {} => executed[j] = {store[j].runner}
    /\ \A w \in Workers :
          wpc[w] = "handler" => executed[wjob[w].id] = {w}

\* two workers selected the same job: one is in its handler, the other
\* lost the commit
C4_Witness ==
    \E w \in Workers, v \in Workers :
        /\ wpc[w] = "handler" /\ wpc[v] = "store_error"
        /\ wjob[v].id = wjob[w].id /\ wjob[v].status = "Running"

\* C5: when the handler of a job returns an error the dispatcher stores
\* status Error for it and stays in its loop: no dispatcher has left the
\* loop with a handler error, and a row in status Running belongs to a
\* job that a dispatcher has in flight.
C5_HandlerErrorStored ==
    /\ \A w \in Workers : wpc[w] # "handler_error"
    /\ \A j \in DOMAIN store :
          store[j].status = "running"
              => \E w \in Workers :
                    /\ wjob[w].id = j
                    /\ wpc[w] \in {"handler", "count", "update", "insert"}

\* C6: once stop_scheduled is set in a worker's Control row the dispatcher
\* commits the job it has in flight and returns between jobs: when it has
\* returned, no row stamped Running by it is left behind.
C6_ReturnsBetweenJobs ==
    \A w \in DOMAIN controls :
        (/\ controls[w].stop_scheduled
         /\ wpc[w] \in {"stopped", "store_error", "handler_error"})
            => \A j \in DOMAIN store :
                  ~(store[j].runner = w /\ store[j].status = "running")

\* C7: with dispatchers that are scheduled fairly and handlers that
\* return, every job stored as Pending reaches Done or Error, as long as a
\* dispatcher is running.
C7_PendingCompletes ==
    \A j \in JobIds :
        (j \in DOMAIN store /\ store[j].status = "pending")
            ~> \/ j \in DOMAIN store /\ store[j].status \in {"done", "error"}
               \/ \A w \in Workers :
                     wpc[w] \in {"stopped", "store_error", "handler_error"}

\* C8: with a single worker, when the worker selects a job every stored
\* job that was submitted before it has been committed Done or Error: an
\* older job is completed before a newer one is stamped Running.
C8_OldestFirstInOrder ==
    [][(wpc[1] = "select" /\ wpc'[1] = "count")
          => \A a \in DOMAIN store :
                store[a].submitted_date < wjob'[1].submitted_date
                    => store[a].status \in {"done", "error"}]_vars

\* the worker has completed an older job and stamps a newer one Running
C8_Witness ==
    \E a \in DOMAIN store :
        /\ wpc[1] = "count" /\ wjob[1].status = "Running"
        /\ store[a].submitted_date < wjob[1].submitted_date
        /\ store[a].status = "done" /\ store[a].runner = 1

\* C9: when a cleanup run has completed, no row that is older than its
\* interval or marked Delete is left and no reaped job has a directory;
\* the run changes nothing but rows and directories of such jobs.
C9_CleanupPost ==
    /\ [](rpc[1] = "done"
            => \A j \in JobIds :
                  IF j \in DOMAIN store
                  THEN ~Reapable(store[j], rdays[1], now)
                  ELSE j \notin dirs)
    /\ [][/\ DOMAIN store' \subseteq DOMAIN store
          /\ dirs' \subseteq dirs
          /\ \A j \in DOMAIN store' : store'[j] = store[j]
          /\ \A j \in DOMAIN store :
                ~Reapable(store[j], rdays'[1], now)
                    => /\ j \in DOMAIN store'
                       /\ (j \in dirs' <=> j \in dirs)]_vars

\* a completed run that reaped a StoredQuery job with its directory and
\* left another job in place
C9_Witness ==
    /\ rpc[1] = "done"
    /\ "storedquery_jobs" \in DOMAIN counters
    /\ dirs # {}
    /\ \E j \in JobIds : j \notin DOMAIN store

\* insert-or-increment of a counter
InsertOrIncrement(c, name) ==
    IF name \in DOMAIN c
    THEN [c EXCEPT ![name] = @ + 1]
    ELSE (name :> 1) @@ c

\* C10: deleting a job raises total_jobs by 1 and <kind>_jobs by 1, each
\* created with value 1 when missing, and no other counter changes.
C10_DeleteCounts ==
    [][\A r \in Reapers :
          /\ (rpc[r] = "stat_total" /\ rpc'[r] = "stat_kind")
                => counters' = InsertOrIncrement(counters, "total_jobs")
          /\ (rpc[r] = "stat_kind" /\ rpc'[r] = "select")
                => counters' = InsertOrIncrement(counters,
                                                 KindCounter(rjob[r]))
          /\ (rpc'[r] = rpc[r] \/ rpc[r] \notin {"stat_total", "stat_kind"})
                => (counters' = counters
                      \/ \E q \in Reapers : q # r /\ rpc'[q] # rpc[q])]_vars

\* ------------------------------------------- dispatchers and the reaper
\* one cleanup run over jobs without a directory
Reap(r) ==
    \/ CleanupStart(r)
    \/ CleanupSelect(r)
    \/ CleanupRemoveDir(r)
    \/ DeleteRow(r)
    \/ StatTotal(r)
    \/ StatKind(r)
    \/ Vacuum(r)

\* creation of ClusterBlast jobs, dispatch loops and a cleanup run while
\* time passes
NextReap ==
    \/ Tick
    \/ \E j \in JobIds : create_clusterblast(j)
    \/ \E w \in Workers : Worker(w) \/ CommitInsert(w)
    \/ Reap(1)

SpecReap == Init /\ [][NextReap]_vars

\* C11: the deletion of a job row and the increment of its <kind>_jobs
\* counter take effect in one step: no state has the row gone and the
\* counter not yet incremented.
C11_DeleteAtomic ==
    [][\A j \in DOMAIN store :
          j \notin DOMAIN store'
              => counters' = InsertOrIncrement(
                                 InsertOrIncrement(counters, "total_jobs"),
                                 store[j].jobtype \o "_jobs")]_vars

\* C12: every row that appears in the job table is inserted with version 0.
C12_InsertVersionZero ==
    [][\A j \in JobIds :
          (j \notin DOMAIN store /\ j \in DOMAIN store')
              => store'[j].version = 0]_vars

\* ------------------------------------------------ api/job.rs: JobInfo
\* Option<T>
None == <<>>
Some(v) == <<v>>

\* format!("/api/job/{}", info.id)
NextLink(id) == "/api/job/" \o ToString(id)

\* the conversion with the link set for every status
JobInfoLinkAlways(e) ==
    [id |-> e.id, jobtype |-> JobTypeToString(e.jobtype),
     status |-> StatusToString(e.status), submitted |-> e.submitted_date,
     next |-> Some(NextLink(e.id)),
     results |-> IF e.status = "Done" THEN Some(e.result) ELSE None]

\* impl TryFrom<JobEntry> for JobInfo
JobInfo(e) ==
    [id |-> e.id, jobtype |-> JobTypeToString(e.jobtype),
     status |-> StatusToString(e.status), submitted |-> e.submitted_date,
     next |-> IF e.status \in {"Pending", "Running"}
              THEN Some(NextLink(e.id)) ELSE None,
     results |-> IF e.status = "Done" THEN Some(e.result) ELSE None]

\* the reply of create_*: JobInfo::try_from(job) for the entry JobEntry::new
\* built and commit inserted
create_info(j, k) ==
    /\ req.op = "none"
    /\ ~Exists(j)
    /\ req' = [op |-> "create", id |-> j]
    /\ \E g \in Inputs(k) :
          resp' = [op |-> "ok", info |-> JobInfo(NewEntry(j, k, g, now))]
    /\ UNCHANGED <<jobvars, antismash>>

\* GET /api/job/:job_id: JobEntry::from_db, then JobInfo::try_from
get_job_info(j) ==
    /\ req.op = "none"
    /\ req' = [op |-> "get_job_info", id |-> j]
    /\ resp' = IF Exists(j)
               THEN [op |-> "ok", info |-> JobInfo(EntryFromDb(j, store[j]))]
               ELSE [op |-> "error"]
    /\ UNCHANGED <<jobvars, antismash>>

AllStatus == {StatusToString(st) : st \in JobStatus}

\* a job table holding at most one job, of any kind and in any status
InitJobInfo ==
    /\ \/ store = <<>>
       \/ \E j \in JobIds, k \in JobType, st \in AllStatus, d \in Times :
             store = (j :> RowAt(k, st, d))
    /\ counters = <<>>
    /\ controls = <<>>
    /\ dirs = {}
    /\ now = MaxTime
    /\ cpc = [j \in JobIds |-> "done"]
    /\ cjob = [j \in JobIds |-> NoJob]
    /\ wpc = [w \in Workers |-> "off"]
    /\ wjob = [w \in Workers |-> NoJob]
    /\ executed = [j \in JobIds |-> {}]
    /\ rpc = [r \in Reapers |-> "idle"]
    /\ rjob = [r \in Reapers |-> NoJob]
    /\ rdays = [r \in Reapers |-> 0]
    /\ req = NoReq
    /\ resp = NoReq
    /\ antismash = NoRegions

NextJobInfo ==
    \E j \in JobIds :
        \/ get_job_info(j)
        \/ \E k \in CreateKinds : create_info(j, k)

SpecJobInfo == InitJobInfo /\ [][NextJobInfo]_vars

\* C13: a job status envelope carries the link /api/job/<id> exactly when
\* its status is pending or running and carries results exactly when its
\* status is done; for error and delete it carries neither.
C13_Envelope ==
    resp.op = "ok"
        => /\ resp.info.next = IF resp.info.status \in {"pending", "running"}
                               THEN Some(NextLink(req.id)) ELSE None
           /\ resp.info.results # None <=> resp.info.status = "done"
           /\ resp.info.id = req.id
           /\ req.op = "get_job_info"
                 => resp.info.status = store[req.id].status

\* the envelope of a job that is done carries its results and no link
C13_Witness ==
    /\ resp.op = "ok" /\ req.op = "get_job_info"
    /\ resp.info.status = "done"
    /\ resp.info.results = Some(PingReply("hi"))
    /\ resp.info.next = None

\* C14: a stored Ping job that is done holds the reply "You said
\* '<greeting>', I say 'PONG'!" for its greeting, a Ping job that is pending
\* or running holds no reply, and no step changes the input of a stored job.
C14_PingReply ==
    /\ [](\A j \in DOMAIN store :
             store[j].jobtype = "ping"
                 => /\ store[j].status = "done"
                          => store[j].results
                                 = "You said '" \o store[j].data
                                       \o "', I say 'PONG'!"
                    /\ store[j].status \in {"pending", "running"}
                          => store[j].results = NoResult)
    /\ [][\A j \in DOMAIN store :
             j \in DOMAIN store' => store'[j].data = store[j].data]_vars

\* a Ping job submitted with the greeting yo is done
C14_Witness ==
    \E j \in DOMAIN store :
        /\ store[j].jobtype = "ping" /\ store[j].status = "done"
        /\ store[j].data = "yo"
        /\ store[j].results = "You said 'yo', I say 'PONG'!"

\* C15: when the removal of a job's directory fails the cleanup run ends
\* with the error: the job's row and directory are still there, the
\* counters are unchanged, and the run takes no further step.
C15_RmdirFailureStops ==
    [][/\ (rpc[1] = "rmdir" /\ rpc'[1] = "io_error")
             => /\ store' = store /\ counters' = counters /\ dirs' = dirs
                /\ rjob[1].id \in DOMAIN store' /\ rjob[1].id \in dirs'
       /\ rpc[1] = "io_error"
             => /\ store' = store /\ counters' = counters /\ dirs' = dirs
                /\ rpc'[1] = "io_error"]_vars

\* a run stopped by a failed removal while another reapable job is stored
C15_Witness ==
    /\ rpc[1] = "io_error"
    /\ \E j \in DOMAIN store, k \in DOMAIN store :
          /\ j # k /\ j \in dirs
          /\ Reapable(store[j], rdays[1], now)
          /\ Reapable(store[k], rdays[1], now)

\* ------------------------------------------- api/region: region search
\* Category: the leaves without parameters and the reserved module query
Categories == {"contigedge", "crosscdsmodule", "modulequery"}

\* enum Operator
Operators == {"AND", "OR", "EXCEPT"}

\* Term::Expr
Exprs == {[termType |-> "expr", category |-> c] : c \in Categories}

\* Term::Op over the terms S
Ops(S) ==
    {[termType |-> "op", operator |-> o, left |-> l, right |-> r] :
        o \in Operators, l \in S, r \in S}

\* query trees: leaves, operations on leaves, operations on those
FlatTerms == Exprs \cup Ops(Exprs)
Terms == FlatTerms \cup Ops(FlatTerms)

\* Result<Vec<i32>>; a Vec<i32> of region ids is kept up to its order, as
\* the number of times each id occurs in it
Ok(ids) == [ok |-> TRUE, ids |-> ids]
Err(e) == [ok |-> FALSE, err |-> e]

\* HashSet::from_iter(vec) and set.collect::<Vec<i32>>()
HashSetFrom(ids) == {r \in Regions : ids[r] > 0}
VecFrom(set) == [r \in Regions |-> IF r \in set THEN 1 ELSE 0]

\* ids.len(), summed over the region ids 1..n
RECURSIVE VecLen(_, _)
VecLen(ids, n) == IF n = 0 THEN 0 ELSE ids[n] + VecLen(ids, n - 1)

\* handle_modulequery
handle_modulequery == Err("NotImplementedError")

\* handle_expression: one row per region for ContigEdge, one row per
\* multi_gene module for CrossCdsModule
handle_expression(e) ==
    CASE e.category = "contigedge" ->
             Ok([r \in Regions |->
                    IF r \in antismash.contig_edge THEN 1 ELSE 0])
      [] e.category = "crosscdsmodule" ->
             Ok([r \in Regions |-> antismash.multi_gene[r]])
      [] e.category = "modulequery" -> handle_modulequery

RECURSIVE handle_term(_)
RECURSIVE handle_op(_)
RECURSIVE handle_opUnionForAnd(_)
RECURSIVE handle_opRightErrorEmpty(_)

\* handle_op with And computed as the union
handle_opUnionForAnd(o) ==
    LET left == handle_term(o.left)
    IN  IF ~left.ok THEN left
        ELSE LET right == handle_term(o.right)
             IN  IF ~right.ok THEN right
                 ELSE LET left_ids == HashSetFrom(left.ids)
                          right_ids == HashSetFrom(right.ids)
                      IN  CASE o.operator = "EXCEPT" ->
                                   Ok(VecFrom(left_ids \ right_ids))
                            [] o.operator = "OR" ->
                                   Ok(VecFrom(left_ids \cup right_ids))
                            [] o.operator = "AND" ->
                                   Ok(VecFrom(left_ids \cup right_ids))

\* handle_op taking a failed right operand as no ids
handle_opRightErrorEmpty(o) ==
    LET left == handle_term(o.left)
    IN  IF ~left.ok THEN left
        ELSE LET right == handle_term(o.right)
                 left_ids == HashSetFrom(left.ids)
                 right_ids == IF right.ok THEN HashSetFrom(right.ids) ELSE {}
             IN  CASE o.operator = "EXCEPT" ->
                          Ok(VecFrom(left_ids \ right_ids))
                   [] o.operator = "OR" ->
                          Ok(VecFrom(left_ids \cup right_ids))
                   [] o.operator = "AND" ->
                          Ok(VecFrom(left_ids \cap right_ids))

\* handle_op: `?` on the left operand, then on the right one, then the
\* HashSet operation
handle_op(o) ==
    LET left == handle_term(o.left)
    IN  IF ~left.ok THEN left
        ELSE LET right == handle_term(o.right)
             IN  IF ~right.ok THEN right
                 ELSE LET left_ids == HashSetFrom(left.ids)
                          right_ids == HashSetFrom(right.ids)
                      IN  CASE o.operator = "EXCEPT" ->
                                   Ok(VecFrom(left_ids \ right_ids))
                            [] o.operator = "OR" ->
                                   Ok(VecFrom(left_ids \cup right_ids))
                            [] o.operator = "AND" ->
                                   Ok(VecFrom(left_ids \cap right_ids))

\* handle_term
handle_term(term) ==
    IF term.termType = "expr" THEN handle_expression(term)
    ELSE handle_op(term)

\* the region ids of a set in ascending order
Ascending(set) ==
    CHOOSE seq \in [1..Cardinality(set) -> set] :
        \A a \in 1..Cardinality(set), b \in 1..Cardinality(set) :
            a < b => seq[a] < seq[b]

\* ids_to_regions: WHERE region_id = ANY($1) ... ORDER BY region_id
ids_to_regions(ids) == Ascending(HashSetFrom(ids))

\* core_search: (ids.len(), ids_to_regions(ids))
core_search(query) ==
    LET ids == handle_term(query)
    IN  IF ~ids.ok THEN ids
        ELSE [ok |-> TRUE, total |-> VecLen(ids.ids, NumRegions),
              regions |-> ids_to_regions(ids.ids)]

\* show_assembly / show_acc: Json(json!(regions)) of core_search
show(query) ==
    /\ req.op = "none"
    /\ req' = [op |-> "show", query |-> query]
    /\ resp' = LET found == core_search(query)
               IN  IF found.ok
                   THEN [op |-> "ok", total |-> found.total,
                         regions |-> found.regions]
                   ELSE [op |-> "error", err |-> found.err]
    /\ UNCHANGED <<jobvars, antismash>>

\* the job tables empty and no process started
QuietJobs ==
    /\ store = <<>>
    /\ counters = <<>>
    /\ controls = <<>>
    /\ dirs = {}
    /\ now = 0
    /\ cpc = [j \in JobIds |-> "done"]
    /\ cjob = [j \in JobIds |-> NoJob]
    /\ wpc = [w \in Workers |-> "off"]
    /\ wjob = [w \in Workers |-> NoJob]
    /\ executed = [j \in JobIds |-> {}]
    /\ rpc = [r \in Reapers |-> "idle"]
    /\ rjob = [r \in Reapers |-> NoJob]
    /\ rdays = [r \in Reapers |-> 0]

\* any content of the region tables
InitRegions ==
    /\ QuietJobs
    /\ req = NoReq
    /\ resp = NoReq
    /\ antismash \in [contig_edge : SUBSET Regions,
                       multi_gene : [Regions -> 0..MaxModules]]

\* the evaluation of one query tree
NextEval ==
    /\ req.op = "none"
    /\ \E query \in Terms : show(query)

SpecEval == InitRegions /\ [][NextEval]_vars

\* the nodes of a query tree
RECURSIVE SubTerms(_)
SubTerms(term) ==
    IF term.termType = "expr" THEN {term}
    ELSE {term} \cup SubTerms(term.left) \cup SubTerms(term.right)

\* intersection, union and left-minus-right difference
Combine(operator, l, r) ==
    CASE operator = "AND" -> l \cap r
      [] operator = "OR" -> l \cup r
      [] operator = "EXCEPT" -> l \ r

\* the elements of a sequence
Range(seq) == {seq[i] : i \in DOMAIN seq}

\* C16: the result of every operation node of the evaluated query, at any
\* depth, is as a set the intersection (AND), union (OR) or difference
\* (EXCEPT) of the results of its two children, and the regions replied
\* are the result of the root.
C16_SetAlgebra ==
    req.op = "show"
        => /\ \A n \in SubTerms(req.query) :
                 (n.termType = "op" /\ handle_term(n).ok)
                     => /\ handle_term(n.left).ok
                        /\ handle_term(n.right).ok
                        /\ HashSetFrom(handle_term(n).ids)
                              = Combine(n.operator,
                                        HashSetFrom(handle_term(n.left).ids),
                                        HashSetFrom(handle_term(n.right).ids))
           /\ resp.op = "ok"
                 => Range(resp.regions)
                        = HashSetFrom(handle_term(req.query).ids)

\* a difference of two operations was evaluated: some region of the left
\* operation is removed by the right one and some is kept
C16_Witness ==
    /\ req.op = "show" /\ resp.op = "ok"
    /\ req.query.termType = "op" /\ req.query.operator = "EXCEPT"
    /\ req.query.left.termType = "op" /\ req.query.left.operator = "OR"
    /\ req.query.right.termType = "op" /\ req.query.right.operator = "AND"
    /\ resp.regions # <<>>
    /\ HashSetFrom(handle_term(req.query.left).ids) # Range(resp.regions)

\* C17: the identifier list of an evaluated query holds every region id at
\* most once and the total replied is the number of distinct regions.
C17_NoDuplicates ==
    (req.op = "show" /\ resp.op = "ok")
        => /\ \A r \in Regions : handle_term(req.query).ids[r] <= 1
           /\ resp.total = Len(resp.regions)

\* some leaf of a query tree has the category
RECURSIVE HasLeaf(_, _)
HasLeaf(term, category) ==
    IF term.termType = "expr" THEN term.category = category
    ELSE HasLeaf(term.left, category) \/ HasLeaf(term.right, category)

\* C18: a query with a module-query leaf anywhere in its tree is answered
\* with the not-implemented error and without regions.
C18_LeafErrorFails ==
    (req.op = "show" /\ HasLeaf(req.query, "modulequery"))
        => /\ resp.op = "error"
           /\ resp.err = "NotImplementedError"
           /\ DOMAIN resp = {"op", "err"}

\* the failing leaf is the right operand of a nested operation whose left
\* operands match regions
C18_Witness ==
    /\ req.op = "show" /\ resp.op = "error"
    /\ req.query.termType = "op" /\ req.query.operator = "OR"
    /\ req.query.right.termType = "op"
    /\ req.query.right.operator = "OR"
    /\ req.query.right.right.category = "modulequery"
    /\ handle_term(req.query.left).ok
    /\ HashSetFrom(handle_term(req.query.left).ids) # {}
    /\ handle_term(req.query.right.left).ok
    /\ HashSetFrom(handle_term(req.query.right.left).ids) # {}

\* ------------------------------------------ api/search.rs: POST /api/search
MaxPage == 2
MaxOffset == 2

\* req.paginate.unwrap_or(100) for ReturnType::Json
DefaultPaginate == 100

\* SearchPayload.paginate and .offset: Option<usize>
Paginates == {None} \cup {Some(p) : p \in 0..MaxPage}
Offsets == {None} \cup {Some(o) : o \in 0..MaxOffset}

\* Option::unwrap_or
UnwrapOr(opt, default) == IF opt = None THEN default ELSE opt[1]

\* &all_regions[offset..offset + paginate] and &all_regions[offset..]: the
\* range is within the vector
InRange(all_regions, paginate, offset) ==
    IF paginate > 0 THEN offset + paginate <= Len(all_regions)
    ELSE offset <= Len(all_regions)

\* Vec::from of the slice
Slice(all_regions, paginate, offset) ==
    IF paginate > 0 THEN SubSeq(all_regions, offset + 1, offset + paginate)
    ELSE SubSeq(all_regions, offset + 1, Len(all_regions))

\* api::search::search for a region search returning JSON, with
\* api::region::search: core_search, the slice, the Reply; a slice out of
\* range panics
search(query, opt_paginate, opt_offset) ==
    /\ req.op = "none"
    /\ req' = [op |-> "search", query |-> query, paginate |-> opt_paginate,
               offset |-> opt_offset]
    /\ resp' = LET offset == UnwrapOr(opt_offset, 0)
                   paginate == UnwrapOr(opt_paginate, DefaultPaginate)
                   found == core_search(query)
               IN  IF ~found.ok THEN [op |-> "error", err |-> found.err]
                   ELSE IF ~InRange(found.regions, paginate, offset)
                        THEN [op |-> "panic"]
                        ELSE [op |-> "ok",
                              regions |-> Slice(found.regions, paginate,
                                                offset),
                              offset |-> 0, paginate |-> found.total,
                              total |-> found.total]
    /\ UNCHANGED <<jobvars, antismash>>

\* one search request over leaves and operations on leaves
NextSearch ==
    /\ req.op = "none"
    /\ \E query \in FlatTerms, p \in Paginates, o \in Offsets :
          search(query, p, o)

SpecSearch == InitRegions /\ [][NextSearch]_vars

\* the smaller of two numbers
Min(a, b) == IF a < b THEN a ELSE b

\* C19: a JSON region search whose query evaluates is answered with a
\* reply for every result size: with page size P > 0 and offset O the reply
\* holds the regions from position O on, at most P of them, and the total.
C19_PageWithinTotal ==
    (req.op = "search" /\ ~HasLeaf(req.query, "modulequery"))
        => /\ resp.op = "ok"
           /\ resp.total = core_search(req.query).total
           /\ UnwrapOr(req.paginate, DefaultPaginate) > 0
                 => /\ Len(resp.regions)
                          <= UnwrapOr(req.paginate, DefaultPaginate)
                    /\ resp.regions
                          = SubSeq(core_search(req.query).regions,
                                   UnwrapOr(req.offset, 0) + 1,
                                   Min(UnwrapOr(req.offset, 0)
                                         + UnwrapOr(req.paginate,
                                                    DefaultPaginate),
                                       Len(core_search(req.query).regions)))

\* ------------------------------------- query/filters/mod.rs: Filter::parse
\* strings are sequences of characters; the characters of a filter body
MaxLen == 4
Chars == {"a", "3", "|", ":", ">", "="}
Digit == [c \in {"3"} |-> 3]

Strings(n) == UNION {[1..k -> Chars] : k \in 0..n}

\* str::split_once: the parts before and after the first separator
SplitOnce(str, sep) ==
    IF \E i \in DOMAIN str : str[i] = sep
    THEN LET i == CHOOSE k \in DOMAIN str :
                      /\ str[k] = sep
                      /\ \A m \in 1..(k - 1) : str[m] # sep
         IN  Some(<<SubSeq(str, 1, i - 1), SubSeq(str, i + 1, Len(str))>>)
    ELSE None

\* str::parse::<f32> over these characters: a non-empty run of digits
RECURSIVE DigitsValue(_)
DigitsValue(str) ==
    IF str = <<>> THEN 0
    ELSE 10 * DigitsValue(SubSeq(str, 1, Len(str) - 1))
             + Digit[str[Len(str)]]

ParseF32(str) ==
    IF str # <<>> /\ \A i \in DOMAIN str : str[i] \in DOMAIN Digit
    THEN Some(DigitsValue(str))
    ELSE None

\* filters::Operator::parse: one character, or the first two of more
Operator_parse(input) ==
    IF Len(input) < 1 THEN Err("ParserError")
    ELSE IF Len(input) = 1
    THEN CASE input = <<">">> -> [ok |-> TRUE, op |-> "Greater"]
           [] input = <<"<">> -> [ok |-> TRUE, op |-> "Less"]
           [] OTHER -> Err("ParserError")
    ELSE CASE SubSeq(input, 1, 2) = <<">", "=">> ->
                  [ok |-> TRUE, op |-> "GreaterOrEqual"]
           [] SubSeq(input, 1, 2) = <<"=", "=">> ->
                  [ok |-> TRUE, op |-> "Equal"]
           [] SubSeq(input, 1, 2) = <<"<", "=">> ->
                  [ok |-> TRUE, op |-> "LessOrEqual"]
           [] OTHER -> Err("ParserError")

\* Filter::parse on the text between the brackets of " WITH [..]"
Filter_parse(inner) ==
    LET bar == SplitOnce(inner, "|")
    IN  IF bar = None
        THEN [ok |-> TRUE, filter |-> [kind |-> "Boolean", name |-> inner]]
        ELSE LET name == bar[1][1]
                 value_raw == bar[1][2]
                 colon == SplitOnce(value_raw, ":")
             IN  IF colon # None
                 THEN LET op == Operator_parse(colon[1][1])
                          val == ParseF32(colon[1][2])
                      IN  IF ~op.ok THEN op
                          ELSE IF val = None THEN Err("InvalidRequest")
                          ELSE [ok |-> TRUE,
                                filter |-> [kind |-> "Qualitative",
                                            name |-> name, value |-> val[1],
                                            operator |-> op.op]]
                 ELSE LET value == ParseF32(value_raw)
                      IN  IF value = None
                          THEN [ok |-> TRUE,
                                filter |-> [kind |-> "Text", name |-> name,
                                            value |-> value_raw]]
                          ELSE [ok |-> TRUE,
                                filter |-> [kind |-> "Numerical",
                                            name |-> name,
                                            value |-> value[1]]]

\* a call of Filter::parse
parse_filter(inner) ==
    /\ req.op = "none"
    /\ req' = [op |-> "parse_filter", inner |-> inner]
    /\ resp' = Filter_parse(inner)
    /\ UNCHANGED <<jobvars, antismash>>

\* no job, no region, no request
InitParse ==
    /\ QuietJobs
    /\ req = NoReq
    /\ resp = NoReq
    /\ antismash = NoRegions

NextFilter ==
    /\ req.op = "none"
    /\ \E inner \in Strings(MaxLen) : parse_filter(inner)

SpecFilter == InitParse /\ [][NextFilter]_vars

\* the operators >, >=, ==, <=, <
KnownOperators ==
    {<<">">>, <<">", "=">>, <<"=", "=">>, <<"<", "=">>, <<"<">>}

\* C20: every filter body is classified into one of four shapes: name is
\* Boolean; name|X:Y with X a known operator is Qualitative, or an error
\* when Y is no number; name|N with N a number is Numerical; every other
\* name|S is Text.
C20_FilterShapes ==
    req.op = "parse_filter"
        => LET bar == SplitOnce(req.inner, "|")
               colon == IF bar = None THEN None
                        ELSE SplitOnce(bar[1][2], ":")
           IN  IF bar = None
               THEN resp.ok /\ resp.filter.kind = "Boolean"
               ELSE IF colon # None /\ colon[1][1] \in KnownOperators
               THEN IF ParseF32(colon[1][2]) = None THEN ~resp.ok
                    ELSE resp.ok /\ resp.filter.kind = "Qualitative"
               ELSE IF ParseF32(bar[1][2]) # None
               THEN resp.ok /\ resp.filter.kind = "Numerical"
               ELSE resp.ok /\ resp.filter.kind = "Text"

\* --------------------- query/parser/contrib.rs: take_until_unbalanced
\* the strings of up to n characters over an alphabet
StringsOver(alphabet, n) == UNION {[1..k -> alphabet] : k \in 0..n}

\* IResult: Ok((remaining, output)), or the panic of a slice out of range
Parsed(remaining, output) ==
    [ok |-> TRUE, remaining |-> remaining, output |-> output]
Panic == [ok |-> FALSE, err |-> "panic"]

\* the suffix str[index..] of a string, index counted from 0
From(str, index) == SubSeq(str, index + 1, Len(str))

\* the loop of take_until_unbalanced with index and bracket_counter;
\* &i[index..] panics when index is beyond the end
RECURSIVE Unbalanced(_, _, _, _, _)
Unbalanced(opening_bracket, closing_bracket, i, index, bracket_counter) ==
    IF index > Len(i) THEN Panic
    ELSE LET found == {p \in (index + 1)..Len(i) :
                          i[p] \in {opening_bracket, closing_bracket, "\\"}}
         IN  IF found = {}
             THEN IF bracket_counter = 0 THEN Parsed(<<>>, i)
                  ELSE Err("ParserError")
             ELSE LET p == CHOOSE q \in found : \A k \in found : q <= k
                      counter == IF i[p] = "\\" THEN bracket_counter
                                 ELSE IF i[p] = opening_bracket
                                 THEN bracket_counter + 1
                                 ELSE bracket_counter - 1
                      next == IF i[p] = "\\" THEN p + 1 ELSE p
                  IN  IF counter = -1
                      THEN Parsed(From(i, p - 1), SubSeq(i, 1, p - 1))
                      ELSE Unbalanced(opening_bracket, closing_bracket, i,
                                      next, counter)

\* take_until_unbalanced(opening_bracket, closing_bracket)(i)
take_until_unbalanced(opening_bracket, closing_bracket, i) ==
    Unbalanced(opening_bracket, closing_bracket, i, 0, 0)

\* a call of take_until_unbalanced('(', ')')
read_balanced(i) ==
    /\ req.op = "none"
    /\ req' = [op |-> "take_until_unbalanced", input |-> i]
    /\ resp' = take_until_unbalanced("(", ")", i)
    /\ UNCHANGED <<jobvars, antismash>>


NextBalanced ==
    /\ req.op = "none"
    /\ \E i \in StringsOver({"a", "(", ")", "\\"}, MaxLen) : read_balanced(i)

SpecBalanced == InitParse /\ [][NextBalanced]_vars

\* the character at position k follows an escaping backslash
RECURSIVE Escaped(_, _)
Escaped(str, k) == k > 1 /\ str[k - 1] = "\\" /\ ~Escaped(str, k - 1)

\* opening minus closing brackets among the first k characters
Balance(str, k) ==
    Cardinality({p \in 1..k : str[p] = "(" /\ ~Escaped(str, p)})
        - Cardinality({p \in 1..k : str[p] = ")" /\ ~Escaped(str, p)})

\* the positions of closing brackets without an opening one before them
Unmatched(str) ==
    {k \in DOMAIN str :
        str[k] = ")" /\ ~Escaped(str, k) /\ Balance(str, k) = -1}

\* C24: the reader returns the input before the first closing bracket that
\* has no opening one, a backslash escaping the next character, and leaves
\* that bracket in the remaining input; input that ends with an opening
\* bracket still unclosed is rejected with a parse error.
C24_StopsAtUnmatched ==
    req.op = "take_until_unbalanced"
        => IF Unmatched(req.input) # {}
           THEN LET k == CHOOSE q \in Unmatched(req.input) :
                             \A m \in Unmatched(req.input) : q <= m
                IN  /\ resp.ok
                    /\ resp.output = SubSeq(req.input, 1, k - 1)
                    /\ resp.remaining
                          = SubSeq(req.input, k, Len(req.input))
           ELSE Balance(req.input, Len(req.input)) > 0
                    => (~resp.ok /\ resp.err = "ParserError")

\* --------------------------- search/category.rs: parsing a name
\* the serde names of two variants of Category, lowercase by rename_all
VariantOf ==
    (<<"a", "c", "c">> :> "Acc") @@ (<<"t", "y", "p", "e">> :> "Type")


\* format!("\"{s}\"")
Quoted(s) == <<"\"">> \o s \o <<"\"">>

\* serde_json reading the string that starts after the opening quote: the
\* closing quote has to end the input, a backslash escapes a quote or a
\* backslash and no letter
RECURSIVE JsonString(_, _, _)
JsonString(quoted, i, out) ==
    IF i > Len(quoted) THEN None
    ELSE IF quoted[i] = "\""
    THEN IF i = Len(quoted) THEN Some(out) ELSE None
    ELSE IF quoted[i] = "\\"
    THEN IF i + 1 <= Len(quoted) /\ quoted[i + 1] \in {"\"", "\\"}
         THEN JsonString(quoted, i + 2, Append(out, quoted[i + 1]))
         ELSE None
    ELSE JsonString(quoted, i + 1, Append(out, quoted[i]))

\* impl FromStr for Category: serde_json::from_str::<Self>(&quoted)?
Category_from_str(s) ==
    LET name == JsonString(Quoted(s), 2, <<>>)
    IN  IF name # None /\ name[1] \in DOMAIN VariantOf
        THEN [ok |-> TRUE, category |-> VariantOf[name[1]]]
        ELSE Err("JsonParserError")

\* Category::parse
Category_parse(input) ==
    LET ret == Category_from_str(input)
    IN  IF ret.ok
        THEN [ok |-> TRUE, remaining |-> <<>>, category |-> ret.category]
        ELSE ret

\* impl IntoResponse for Error: the status of an error
StatusOf(err) ==
    CASE err = "InvalidRequest" -> 400
      [] err = "NotFound" -> 404
      [] err = "NotImplementedError" -> 501
      [] OTHER -> 500

\* GET /api/available/filters/:category
available_filters_by_category(raw_category) ==
    /\ req.op = "none"
    /\ req' = [op |-> "available_filters", raw_category |-> raw_category]
    /\ resp' = LET category == Category_from_str(raw_category)
               IN  IF category.ok
                   THEN [ok |-> TRUE, status |-> 200,
                         category |-> category.category]
                   ELSE [ok |-> FALSE, status |-> StatusOf(category.err),
                         err |-> category.err]
    /\ UNCHANGED <<jobvars, antismash>>

NextCategory ==
    /\ req.op = "none"
    /\ \E raw \in StringsOver({"a", "c", "A", "\"", "\\"}, MaxLen) :
           available_filters_by_category(raw)

SpecCategory == InitParse /\ [][NextCategory]_vars

\* str::to_lowercase over the characters of the names
Lower(str) == [i \in DOMAIN str |-> IF str[i] = "A" THEN "a" ELSE str[i]]

\* C22: parsing a category name succeeds exactly for the names of the
\* enumeration, compared after case normalisation, and every other name
\* gives an invalid-request error, never an internal error.
C22_UnknownIsInvalidRequest ==
    req.op = "available_filters"
        => /\ resp.ok => Lower(req.raw_category) \in DOMAIN VariantOf
           /\ req.raw_category \in DOMAIN VariantOf => resp.ok
           /\ ~resp.ok => resp.err = "InvalidRequest" /\ resp.status = 400

\* ------------------------------ query/expression.rs: Expression::parse
DecimalDigit == ("0" :> 0) @@ ("3" :> 3)

\* nom tag: the input starts with the tag
StartsWith(str, t) == Len(str) >= Len(t) /\ SubSeq(str, 1, Len(t)) = t

\* delimited(tag(open), take_until_unbalanced(open, close), tag(close))
Delimited(open, close, input) ==
    IF ~StartsWith(input, <<open>>) THEN Err("ParserError")
    ELSE LET inner == take_until_unbalanced(open, close, From(input, 1))
         IN  IF ~inner.ok THEN inner
             ELSE IF ~StartsWith(inner.remaining, <<close>>)
             THEN Err("ParserError")
             ELSE Parsed(From(inner.remaining, 1), inner.output)

with_mustache(input) == Delimited("{", "}", input)

\* the value of a run of decimal digits
RECURSIVE DecimalValue(_)
DecimalValue(str) ==
    IF str = <<>> THEN 0
    ELSE 10 * DecimalValue(SubSeq(str, 1, Len(str) - 1))
             + DecimalDigit[str[Len(str)]]

\* parse_number::<i64>: digit1, then str::parse, which can fail only on a
\* run of 19 digits or more; the runs here are shorter than MaxLen
parse_number(input) ==
    LET n == CHOOSE k \in 0..Len(input) :
                 /\ \A p \in 1..k : input[p] \in DOMAIN DecimalDigit
                 /\ k < Len(input) => input[k + 1] \notin DOMAIN DecimalDigit
    IN  IF n = 0 THEN Err("ParserError")
        ELSE [ok |-> TRUE, remaining |-> From(input, n),
              value |-> DecimalValue(SubSeq(input, 1, n))]

\* str::split: the parts between the separators
RECURSIVE Split(_, _)
Split(str, sep) ==
    LET cut == SplitOnce(str, sep)
    IN  IF cut = None THEN <<str>>
        ELSE <<cut[1][1]>> \o Split(cut[1][2], sep)

\* Filter::parse on the raw text: " WITH ", then the bracketed filter
Filter_parse_raw(input) ==
    IF ~StartsWith(input, <<" ", "W", "I", "T", "H", " ">>)
    THEN Err("ParserError")
    ELSE LET inner == Delimited("[", "]", From(input, 6))
         IN  IF ~inner.ok THEN inner
             ELSE LET filter == Filter_parse(inner.output)
                  IN  IF ~filter.ok THEN filter
                      ELSE [ok |-> TRUE, remaining |-> inner.remaining,
                            filter |-> filter.filter]

\* the loop of Expression::parse over filters_raw
RECURSIVE ParseFilters(_, _)
ParseFilters(filters_raw, filters) ==
    IF Len(filters_raw) = 0 THEN [ok |-> TRUE, filters |-> filters]
    ELSE LET filter == Filter_parse_raw(filters_raw)
         IN  IF ~filter.ok THEN filter
             ELSE ParseFilters(filter.remaining,
                               Append(filters, filter.filter))

\* Expression::parse
Expression_parse(input) ==
    IF Len(input) < 5 THEN Err("ParserError")
    ELSE
    LET number == parse_number(input)
        prefix == IF input[1] \in DOMAIN DecimalDigit
                  THEN IF ~number.ok THEN number
                       ELSE IF ~StartsWith(number.remaining, <<"*">>)
                       THEN Err("ParserError")
                       ELSE [ok |-> TRUE,
                             remaining |-> From(number.remaining, 1),
                             count |-> number.value]
                  ELSE [ok |-> TRUE, remaining |-> input, count |-> 1]
    IN  IF ~prefix.ok THEN prefix
        ELSE
    LET mustache == with_mustache(prefix.remaining)
    IN  IF ~mustache.ok THEN mustache
        ELSE
    LET term == Delimited("[", "]", mustache.output)
    IN  IF ~term.ok THEN term
        ELSE
    LET filters == ParseFilters(term.remaining, <<>>)
        parts == Split(term.output, "|")
        category == Category_parse(parts[1])
    IN  IF ~filters.ok THEN filters
        ELSE IF ~category.ok THEN category
        ELSE IF Len(parts) > 2 THEN Err("ParserError")
        ELSE [ok |-> TRUE, remaining |-> mustache.remaining,
              expr |-> [category |-> category.category,
                        value |-> IF Len(parts) = 1 THEN <<>> ELSE parts[2],
                        filters |-> filters.filters,
                        count |-> prefix.count]]

\* a call of Expression::parse
parse_expression(input) ==
    /\ req.op = "none"
    /\ req' = [op |-> "parse_expression", input |-> input]
    /\ resp' = Expression_parse(input)
    /\ UNCHANGED <<jobvars, antismash>>

\* the expressions that follow a count prefix, well formed or not
Bodies ==
    {<<"{", "[", "a", "c", "c", "]", "}">>,
     <<"{", "[", "a", "c", "c", "|", "a", "]", "}">>,
     <<"{", "[", "a", "c", "c", "]",
       " ", "W", "I", "T", "H", " ", "[", "a", "]", "}">>}

NextExpression ==
    /\ req.op = "none"
    /\ \E prefix \in StringsOver({"0", "3", "*"}, MaxLen - 1),
          body \in Bodies :
           parse_expression(prefix \o body)

SpecExpression == InitParse /\ [][NextExpression]_vars

\* C21: every parsed Expression has a count of at least 1: without a count
\* prefix the count is 1, with the prefix N* it is the positive integer N,
\* and a prefix that is no positive integer, such as 0*, is rejected.
C21_CountAtLeastOne ==
    req.op = "parse_expression" /\ resp.ok
        => /\ resp.expr.count >= 1
           /\ req.input[1] \notin DOMAIN DecimalDigit
                 => resp.expr.count = 1
           /\ req.input[1] \in DOMAIN DecimalDigit
                 => resp.expr.count = parse_number(req.input).value

\* ------------------- api/region/expression.rs: the Category::Acc branch
\* str::parse::<i32> over these characters: a non-empty run of digits
ParseI32(str) ==
    IF str # <<>> /\ \A i \in DOMAIN str : str[i] \in DOMAIN Digit
    THEN Some(DigitsValue(str))
    ELSE None

\* the accession and the version that the Acc branch binds to its query
handle_acc(value) ==
    LET dot == SplitOnce(value, ".")
    IN  IF dot # None
        THEN LET version == ParseI32(dot[1][2])
             IN  IF version = None THEN Err("IntParserError")
                 ELSE [ok |-> TRUE, accession |-> dot[1][1],
                       version |-> version]
        ELSE [ok |-> TRUE, accession |-> value, version |-> None]

\* handle_expression on an Acc leaf
search_acc(value) ==
    /\ req.op = "none"
    /\ req' = [op |-> "search_acc", value |-> value]
    /\ resp' = handle_acc(value)
    /\ UNCHANGED <<jobvars, antismash>>


NextAcc ==
    /\ req.op = "none"
    /\ \E value \in StringsOver({"A", ".", "3"}, MaxLen) : search_acc(value)

SpecAcc == InitParse /\ [][NextAcc]_vars

\* the position of the last '.' of a string that has one
LastDot(str) ==
    CHOOSE k \in DOMAIN str :
        str[k] = "." /\ \A m \in (k + 1)..Len(str) : str[m] # "."

\* C23: an accession value with a '.' is split once at its last '.', the
\* part before it is the accession and the part after it the integer
\* version; a value without '.' is the accession, with no version.
C23_SplitAtLastDot ==
    req.op = "search_acc"
        => IF \E k \in DOMAIN req.value : req.value[k] = "."
           THEN LET k == LastDot(req.value)
                    suffix == SubSeq(req.value, k + 1, Len(req.value))
                IN  ParseI32(suffix) # None
                        => /\ resp.ok
                           /\ resp.accession = SubSeq(req.value, 1, k - 1)
                           /\ resp.version = ParseI32(suffix)
           ELSE /\ resp.ok
                /\ resp.accession = req.value
                /\ resp.version = None

\* ------------------------------------------ jobs and the reaper, again
\* C25: once the reaper has deleted the row of a job, no later step brings
\* a row with that id back: the row of a job that was created and is gone
\* from the store stays gone, also when a worker that was executing the
\* job commits it afterwards.
C25_ReapedStaysGone ==
    [][\A j \in JobIds :
          (cpc[j] = "done" /\ ~Exists(j)) => j \notin DOMAIN store']_vars

\* creation of ClusterBlast jobs and concurrent dispatch loops
NextRace ==
    \/ \E j \in JobIds : create_clusterblast(j)
    \/ \E w \in Workers : Worker(w)

SpecRace == Init /\ [][NextRace]_vars

\* C26: when two dispatchers have selected the same pending job, exactly
\* one Running commit succeeds; the commit of the other fails as a store
\* error, and that dispatcher leaves its loop without running the handler:
\* it neither skips the job nor selects another one.
C26_LoserLeavesLoop ==
    /\ [](\A w \in Workers :
             (wpc[w] = "store_error" /\ wjob[w].status = "Running")
                 => /\ w \notin executed[wjob[w].id]
                    /\ Cardinality(executed[wjob[w].id]) = 1)
    /\ [][\A w \in Workers :
             /\ (/\ wpc[w] = "update" /\ wpc'[w] # "update"
                 /\ wjob[w].status = "Running")
                   => IF executed[wjob[w].id] = {}
                      THEN /\ wpc'[w] = "handler"
                           /\ executed'[wjob[w].id] = {w}
                      ELSE /\ wpc'[w] = "store_error"
                           /\ executed' = executed /\ store' = store
             /\ wpc[w] = "store_error"
                   => wpc'[w] = "store_error" /\ wjob'[w] = wjob[w]]_vars

\* two dispatchers selected the same job: one has completed it and gone
\* on, the other has left its loop with the store error
C26_Witness ==
    \E w \in Workers, v \in Workers :
        /\ wpc[v] = "store_error" /\ wjob[v].status = "Running"
        /\ executed[wjob[v].id] = {w}
        /\ store[wjob[v].id].status = "done"
        /\ wpc[w] = "select"

\* the dispatch loop of a worker and a cleanup run, started on a job table
\* that holds ClusterBlast jobs, pending or left Running by a worker that
\* is gone
InitAbandoned ==
    /\ \E ids \in SUBSET JobIds :
          store \in [ids -> {RowAt("ClusterBlast", st, d) :
                                st \in {"pending", "running"}, d \in Times}]
    /\ dirs = {}
    /\ counters = <<>>
    /\ controls = <<>>
    /\ now = MaxTime
    /\ cpc = [j \in JobIds |-> "done"]
    /\ cjob = [j \in JobIds |-> NoJob]
    /\ wpc = [w \in Workers |-> "off"]
    /\ wjob = [w \in Workers |-> NoJob]
    /\ executed = [j \in JobIds |-> {}]
    /\ rpc = [r \in Reapers |-> "idle"]
    /\ rjob = [r \in Reapers |-> NoJob]
    /\ rdays = [r \in Reapers |-> 0]
    /\ req = NoReq
    /\ resp = NoReq
    /\ antismash = NoRegions

NextAbandoned ==
    \/ Worker(1)
    \/ CommitInsert(1)
    \/ Reap(1)

SpecAbandoned == InitAbandoned /\ [][NextAbandoned]_vars

\* a dispatcher holds the job between next_pending and the end of run
InFlight(j) ==
    \E w \in Workers :
        wjob[w].id = j /\ wpc[w] \in {"count", "update", "insert", "handler"}

\* C27: next_pending returns only jobs stored as Pending, and a job left
\* in status Running with no dispatcher holding it is never selected and
\* keeps status Running until the reaper deletes its row.
C27_RunningNotSelected ==
    [][/\ \A w \in Workers :
             (wpc[w] = "select" /\ wpc'[w] = "count")
                 => /\ store[wjob'[w].id].status = "pending"
                    /\ wjob'[w].id \in DOMAIN store
       /\ \A j \in DOMAIN store :
             (store[j].status = "running" /\ ~InFlight(j))
                 => /\ ~InFlight(j)'
                    /\ IF j \in DOMAIN store'
                       THEN store'[j] = store[j]
                       ELSE rpc[1] = "delete" /\ rjob[1].id = j]_vars

\* the worker has completed a job while an older one, left Running by a
\* worker that is gone, was not selected, and the cleanup run has just
\* deleted the row of that older job
C27_Witness ==
    \E k \in DOMAIN store :
        /\ rpc[1] = "stat_total"
        /\ rjob[1].status = "Running" /\ executed[rjob[1].id] = {}
        /\ ~Exists(rjob[1].id)
        /\ store[k].status = "done" /\ executed[k] = {1}
        /\ rjob[1].submitted_date < store[k].submitted_date

\* cleanup commands running at the same time on a quiet system
NextCleanupRuns == \E r \in Reapers : Cleanup(r)

SpecCleanupRuns == InitCleanup /\ [][NextCleanupRuns]_vars

\* the rows in the store, the jobs counted and the deletions that are
\* about to be counted
Tally ==
    Cardinality(DOMAIN store) + counters["total_jobs"]
        + Cardinality({r \in Reapers : rpc[r] = "stat_total"})

\* C28: across cleanup runs, two of them running at the same time
\* included, total_jobs grows by exactly the number of rows removed from
\* the store: a row that leaves the store is counted once, and nothing is
\* counted without a row leaving the store.
C28_CountedOnce ==
    []["total_jobs" \in DOMAIN counters => Tally' = Tally]_vars

\* ------------------------------------- jobs/stored_query.rs: run
\* the dispatch loop of a worker and a cleanup run, started on a job table
\* of pending StoredQuery jobs; the job_id of the input is a field of the
\* data column that the writer of the row has set
InitStored ==
    /\ \E ids \in SUBSET JobIds :
          store \in [ids -> {[RowAt("StoredQuery", "pending", d)
                                 EXCEPT !.data = ToString(k)] :
                                d \in Times, k \in JobIds}]
    /\ dirs = {}
    /\ counters = <<>>
    /\ controls = <<>>
    /\ now = MaxTime
    /\ cpc = [j \in JobIds |-> "done"]
    /\ cjob = [j \in JobIds |-> NoJob]
    /\ wpc = [w \in Workers |-> "off"]
    /\ wjob = [w \in Workers |-> NoJob]
    /\ executed = [j \in JobIds |-> {}]
    /\ rpc = [r \in Reapers |-> "idle"]
    /\ rjob = [r \in Reapers |-> NoJob]
    /\ rdays = [r \in Reapers |-> 0]
    /\ req = NoReq
    /\ resp = NoReq
    /\ antismash = NoRegions

SpecStored == InitStored /\ [][NextAbandoned]_vars

JobEntry_fetchWhole(e) ==
    IF Exists(e.id)
    THEN [ok |-> TRUE, entry |-> EntryFromDb(e.id, store[e.id])]
    ELSE Err("SqlError")

\* JobEntry::fetch: fetch_one, try_into, then the two assignments; the
\* payload is part of jobtype
JobEntry_fetch(e) ==
    IF Exists(e.id)
    THEN LET job == EntryFromDb(e.id, store[e.id])
         IN  [ok |-> TRUE,
              entry |-> [e EXCEPT !.jobtype = job.jobtype,
                                  !.input = job.input,
                                  !.result = job.result,
                                  !.status = job.status]]
    ELSE Err("SqlError")

\* a call of fetch on an entry held in memory
fetch(e) ==
    /\ req.op = "none"
    /\ req' = [op |-> "fetch", entry |-> e]
    /\ resp' = JobEntry_fetch(e)
    /\ UNCHANGED <<jobvars, antismash>>

\* the entries a caller can hold: built by JobEntry::new or read from the
\* store at some earlier time
Entries ==
    {[NewEntry(j, k, "hi", d) EXCEPT
          !.status = st, !.runner = rn,
          !.version = StatusRank(StatusToString(st))] :
        j \in JobIds, k \in JobType, d \in Times, st \in JobStatus,
        rn \in {NoRunner} \cup Workers}

NextFetch ==
    /\ req.op = "none"
    /\ \E e \in Entries : fetch(e)

SpecFetch == InitJobInfo /\ [][NextFetch]_vars

\* C30: fetch replaces the jobtype and the status of the in-memory entry by
\* the stored ones and leaves its id, runner, submitted_date and version
\* as they were, so that a commit after fetch matches the row on the
\* version the entry held before the reload.
C30_FetchKeepsVersion ==
    (req.op = "fetch" /\ resp.ok)
        => LET job == EntryFromDb(req.entry.id, store[req.entry.id])
           IN  /\ resp.entry.jobtype = job.jobtype
               /\ resp.entry.input = job.input
               /\ resp.entry.result = job.result
               /\ resp.entry.status = job.status
               /\ resp.entry.id = req.entry.id
               /\ resp.entry.runner = req.entry.runner
               /\ resp.entry.submitted_date = req.entry.submitted_date
               /\ resp.entry.version = req.entry.version
               /\ UpdateMatches(resp.entry)
                     <=> store[req.entry.id].version = req.entry.version

\* an entry read while the job was Pending is reloaded after the row has
\* been committed Done by a worker: the status is Done, the version is
\* still 0 and a commit of the entry does not match the row
C30_Witness ==
    /\ req.op = "fetch" /\ resp.ok
    /\ req.entry.status = "Pending" /\ req.entry.version = 0
    /\ resp.entry.status = "Done"
    /\ store[req.entry.id].version = 2
    /\ store[req.entry.id].runner # resp.entry.runner
    /\ ~UpdateMatches(resp.entry)

====
